---- MODULE Spec2Model ----
\* Model of mmdeploy's classification task (codebase/mmcls/deploy/classification.py)
\* and of the deploy test runner (codebase/base/runner.py).
\*
\* Python objects live in a small heap so that aliasing is visible: the task's
\* model_cfg is one object, the deep copy made by process_model_config another.
\* Python values of different types are tagged records: [none |-> TRUE] is None,
\* [int |-> n] an int, [tuple |-> s] a tuple, [list |-> s] a list,
\* [str |-> s] a str, [ndarray |-> TRUE] an array, [dict |-> r] a dict.
\* A dict is a record; `k in d` is k \in DOMAIN d.
EXTENDS Integers, Sequences, FiniteSets, TLC

VARIABLES
    heap,        \* the config objects: the caller's model_cfg and the latest copy
    task,        \* the Classification object
    deploy_cfg,  \* the task's deploy config
    runner,      \* the DeployTestRunner object
    model,       \* the model the runner holds
    last_op,     \* the latest call
    args,        \* its arguments
    ret,         \* its outcome: the value returned or the exception raised
    pre,         \* history: the content of model_cfg when the latest call began
    orig_cfg     \* history: the content of model_cfg as first configured

vars == <<heap, task, deploy_cfg, runner, model, last_op, args, ret, pre, orig_cfg>>

\* ---------------------------------------------------------------- bounds
MaxLen == 3
MaxTopk == 2

\* ---------------------------------------------------------------- values
PyNone == [none |-> TRUE]
PyInt(n) == [int |-> n]
PyTuple(s) == [tuple |-> s]
PyList(s) == [list |-> s]

LoadStep == [type |-> "LoadImageFromFile"]
ResizeStep == [type |-> "Resize"]
CropStep == [type |-> "CenterCrop", crop_size |-> 224]
Steps == {LoadStep, ResizeStep, CropStep}

SeqsUpTo(S, n) == UNION {[1..k -> S] : k \in 0..n}
Pipelines == SeqsUpTo(Steps, MaxLen)

TopkValues ==
    {PyInt(n) : n \in 1..MaxTopk}
        \cup {PyTuple(s) : s \in SeqsUpTo(1..MaxTopk, 2)}
Heads ==
    {[type |-> "LinearClsHead"]}
        \cup {[type |-> "LinearClsHead", topk |-> v] : v \in TopkValues}

DataCfg == [test |-> [pipeline |-> <<LoadStep, ResizeStep>>]]

Configs ==
    {[model |-> [head |-> h]] : h \in Heads}
        \cup {[model |-> [head |-> h], test_pipeline |-> p] :
                h \in Heads, p \in Pipelines}
        \cup {[model |-> [head |-> h], test_pipeline |-> p, data |-> DataCfg] :
                h \in Heads, p \in Pipelines}

InputShapes == {PyNone, PyList(<<224, 224>>), PyList(<<256, 256>>)}
DeployShapes == {PyNone, PyList(<<224, 224>>)}
Imgs == {[str |-> "demo.jpg"], [ndarray |-> TRUE]}
Devices == {"cpu", "cuda:0", "cuda:1"}
LogFiles == {PyNone, [str |-> "run.log"], [str |-> "test.log"]}
LogLevels == {"INFO", "DEBUG"}
WrapperCfgs ==
    {PyNone,
     [dict |-> [broadcast_buffers |-> FALSE, find_unused_parameters |-> FALSE]],
     [dict |-> [type |-> "MMDistributedDataParallel"]]}

\* ---------------------------------------------------------------- heap
ModelCfgAddr == 1
CopyAddr == 2
Free == [free |-> TRUE]

\* The object returned by the previous call is dropped by the caller.
Collect(h) == [h EXCEPT ![CopyAddr] = Free]

Insert0(s, x) == <<x>> \o s
Pop0(s) == Tail(s)

RECURSIVE PyMax(_)
PyMax(s) ==
    IF Len(s) = 1 THEN s[1]
    ELSE LET m == PyMax(Tail(s)) IN IF s[1] >= m THEN s[1] ELSE m

\* ------------------------------------------------- process_model_config
IsStr(imgs) == "str" \in DOMAIN imgs

\* Mutation of Deepcopy: `cfg = model_cfg`, the same object under another name.
DeepcopyAlias(h, ref) == [heap |-> h, ref |-> ref]

\* model_cfg.deepcopy(): a new object with the same content.
Deepcopy(h, ref) == [heap |-> [h EXCEPT ![CopyAddr] = h[ref]], ref |-> CopyAddr]

\* An exception leaves the function: its local objects are garbage.
Raise(h, exc) == [heap |-> Collect(h), status |-> exc]

\* Mutation of AdjustPipeline: the load step is inserted without looking at
\* the first step.
AdjustPipelineAlwaysInsert(p, imgs) ==
    IF IsStr(imgs)
    THEN Insert0(p, LoadStep)
    ELSE IF p[1].type = "LoadImageFromFile" THEN Pop0(p) ELSE p

\* Lines 32-37, on a non-empty pipeline.
AdjustPipeline(p, imgs) ==
    IF IsStr(imgs)
    THEN IF p[1].type # "LoadImageFromFile" THEN Insert0(p, LoadStep) ELSE p
    ELSE IF p[1].type = "LoadImageFromFile" THEN Pop0(p) ELSE p

\* Lines 39-46: whether the warning is logged; p has at least 3 steps.
ShapeWarning(p, input_shape) ==
    /\ "none" \notin DOMAIN input_shape
    /\ "crop_size" \in DOMAIN p[3]
    /\ input_shape.list # <<p[3].crop_size, p[3].crop_size>>

ProcessModelConfig(h, ref, imgs, input_shape) ==
    LET c == Deepcopy(h, ref)
        cfg == c.heap[c.ref]
    IN  IF "test_pipeline" \notin DOMAIN cfg THEN Raise(c.heap, "AttributeError")
        ELSE IF Len(cfg.test_pipeline) = 0 THEN Raise(c.heap, "IndexError")
        ELSE LET p == AdjustPipeline(cfg.test_pipeline, imgs)
                 h2 == [c.heap EXCEPT ![c.ref] = [cfg EXCEPT !.test_pipeline = p]]
             IN  IF "none" \notin DOMAIN input_shape /\ Len(p) < 3
                 THEN Raise(h2, "IndexError")
                 ELSE [heap |-> h2, status |-> "ok", ref |-> c.ref,
                       warned |-> ShapeWarning(p, input_shape)]

\* ------------------------------------------------------- Classification
\* __init__, lines 69-76: the pipeline of the caller's config is edited in place.
TaskInit(h) ==
    LET cfg == h[ModelCfgAddr]
    IN  IF "test_pipeline" \notin DOMAIN cfg
        THEN [heap |-> h, status |-> "ok", test_pipeline |-> PyNone]
        ELSE IF Len(cfg.test_pipeline) = 0 THEN Raise(h, "IndexError")
        ELSE LET p == IF cfg.test_pipeline[1].type # "LoadImageFromFile"
                      THEN Insert0(cfg.test_pipeline, LoadStep)
                      ELSE cfg.test_pipeline
             IN  [heap |-> [h EXCEPT ![ModelCfgAddr] = [cfg EXCEPT !.test_pipeline = p]],
                  status |-> "ok", test_pipeline |-> [compose |-> p]]

\* get_preprocess, lines 149-152.
TaskGetPreprocess(h, input_shape) ==
    LET r == ProcessModelConfig(h, ModelCfgAddr, [str |-> ""], input_shape)
    IN  IF r.status # "ok" THEN r
        ELSE IF "data" \notin DOMAIN r.heap[r.ref] THEN Raise(r.heap, "AttributeError")
        ELSE [heap |-> r.heap, status |-> "ok", ref |-> r.ref,
              value |-> PyList(r.heap[r.ref].data.test.pipeline)]

\* Mutation of TaskGetPostprocess: no assertion, and a missing topk is
\* defaulted with postprocess.setdefault('topk', (1, )).
TaskGetPostprocessNoAssert(h) ==
    LET head == h[ModelCfgAddr].model.head
        topk == IF "topk" \in DOMAIN head THEN head.topk ELSE PyTuple(<<1>>)
    IN  IF "tuple" \notin DOMAIN topk
        THEN [heap |-> h, status |-> "TypeError", msg |-> "'int' object is not iterable"]
        ELSE IF Len(topk.tuple) = 0
        THEN [heap |-> h, status |-> "ValueError", msg |-> "max() arg is an empty sequence"]
        ELSE [heap |-> [h EXCEPT ![ModelCfgAddr].model.head =
                            [k \in DOMAIN head \cup {"topk"} |->
                                IF k = "topk" THEN PyInt(PyMax(topk.tuple)) ELSE head[k]]],
              status |-> "ok", ref |-> ModelCfgAddr]

\* get_postprocess, lines 160-163: postprocess is model_cfg.model.head itself.
TaskGetPostprocess(h) ==
    LET postprocess == h[ModelCfgAddr].model.head
    IN  IF "topk" \notin DOMAIN postprocess
        THEN [heap |-> h, status |-> "AssertionError", msg |-> "model config lack topk"]
        ELSE IF "tuple" \notin DOMAIN postprocess.topk
        THEN [heap |-> h, status |-> "TypeError", msg |-> "'int' object is not iterable"]
        ELSE IF Len(postprocess.topk.tuple) = 0
        THEN [heap |-> h, status |-> "ValueError", msg |-> "max() arg is an empty sequence"]
        ELSE [heap |-> [h EXCEPT ![ModelCfgAddr].model.head.topk =
                                     PyInt(PyMax(postprocess.topk.tuple))],
              status |-> "ok", ref |-> ModelCfgAddr]

\* ----------------------------------------------------- DeployTestRunner
\* Mutation of RunnerWrapModel: the behaviour of the overridden
\* Runner.wrap_model in a distributed run, which wraps the moved model.
RunnerWrapModelDistributed(r, model_wrapper_cfg, m) ==
    [device |-> r._device,
     wrapper |-> IF "dict" \in DOMAIN model_wrapper_cfg
                    /\ "type" \in DOMAIN model_wrapper_cfg.dict
                 THEN model_wrapper_cfg.dict.type
                 ELSE "MMDistributedDataParallel"]

\* wrap_model, line 42: model.to(device) moves the module and returns it.
RunnerWrapModel(r, model_wrapper_cfg, m) == [m EXCEPT !.device = r._device]

\* build_logger, lines 60-63: the arguments handed to Runner.build_logger.
RunnerBuildLogger(r, log_level, log_file) ==
    [log_level |-> log_level,
     log_file |-> IF "none" \in DOMAIN log_file THEN r._log_file ELSE log_file]

\* ---------------------------------------------------------------- state
DefaultCfg ==
    [model |-> [head |-> [type |-> "LinearClsHead", topk |-> PyTuple(<<1, 2>>)]],
     test_pipeline |-> <<LoadStep, ResizeStep, CropStep>>]
HeapOf(c) == [a \in {ModelCfgAddr, CopyAddr} |-> IF a = ModelCfgAddr THEN c ELSE Free]

\* The classification task: any model config, one runner.
Init ==
    /\ heap \in {HeapOf(c) : c \in Configs}
    /\ task = [built |-> FALSE]
    /\ deploy_cfg \in {[input_shape |-> s] : s \in DeployShapes}
    /\ runner = [_device |-> "cpu", _log_file |-> PyNone]
    /\ model = [device |-> "cpu", wrapper |-> "none"]
    /\ last_op = "none"
    /\ args = PyNone
    /\ ret = PyNone
    /\ pre = heap[ModelCfgAddr]
    /\ orig_cfg = heap[ModelCfgAddr]

\* The runner: any device and log file given to the constructor, one config.
InitRunner ==
    /\ heap = HeapOf(DefaultCfg)
    /\ task = [built |-> FALSE]
    /\ deploy_cfg = [input_shape |-> PyNone]
    /\ runner \in {[_device |-> d, _log_file |-> f] : d \in Devices, f \in LogFiles}
    /\ model \in {[device |-> d, wrapper |-> "none"] : d \in Devices}
    /\ last_op = "none"
    /\ args = PyNone
    /\ ret = PyNone
    /\ pre = heap[ModelCfgAddr]
    /\ orig_cfg = heap[ModelCfgAddr]

Construct ==
    /\ ~task.built
    /\ LET r == TaskInit(Collect(heap))
       IN  /\ heap' = r.heap
           /\ task' = IF r.status = "ok"
                      THEN [built |-> TRUE, test_pipeline |-> r.test_pipeline]
                      ELSE task
           /\ ret' = [status |-> r.status]
    /\ last_op' = "__init__"
    /\ args' = PyNone
    /\ pre' = heap[ModelCfgAddr]
    /\ UNCHANGED <<deploy_cfg, runner, model, orig_cfg>>

CallProcessModelConfig ==
    \E imgs \in Imgs, input_shape \in InputShapes :
        /\ LET r == ProcessModelConfig(Collect(heap), ModelCfgAddr, imgs, input_shape)
           IN  /\ heap' = r.heap
               /\ ret' = [x \in DOMAIN r \ {"heap"} |-> r[x]]
        /\ last_op' = "process_model_config"
        /\ args' = [imgs |-> imgs, input_shape |-> input_shape]
        /\ pre' = heap[ModelCfgAddr]
        /\ UNCHANGED <<task, deploy_cfg, runner, model, orig_cfg>>

GetPreprocess ==
    /\ task.built
    /\ LET r == TaskGetPreprocess(Collect(heap), deploy_cfg.input_shape)
       IN  /\ heap' = r.heap
           /\ ret' = [x \in DOMAIN r \ {"heap"} |-> r[x]]
    /\ last_op' = "get_preprocess"
    /\ args' = PyNone
    /\ pre' = heap[ModelCfgAddr]
    /\ UNCHANGED <<task, deploy_cfg, runner, model, orig_cfg>>

GetPostprocess ==
    /\ task.built
    /\ LET r == TaskGetPostprocess(Collect(heap))
       IN  /\ heap' = r.heap
           /\ ret' = [x \in DOMAIN r \ {"heap"} |-> r[x]]
    /\ last_op' = "get_postprocess"
    /\ args' = PyNone
    /\ pre' = heap[ModelCfgAddr]
    /\ UNCHANGED <<task, deploy_cfg, runner, model, orig_cfg>>

WrapModel ==
    \E model_wrapper_cfg \in WrapperCfgs :
        /\ model' = RunnerWrapModel(runner, model_wrapper_cfg, model)
        /\ ret' = [status |-> "ok", value |-> model']
        /\ last_op' = "wrap_model"
        /\ args' = [model_wrapper_cfg |-> model_wrapper_cfg, model |-> model]
        /\ UNCHANGED <<heap, task, deploy_cfg, runner, pre, orig_cfg>>

BuildLogger ==
    \E log_level \in LogLevels, log_file \in LogFiles :
        /\ ret' = [status |-> "ok", value |-> RunnerBuildLogger(runner, log_level, log_file)]
        /\ last_op' = "build_logger"
        /\ args' = [log_level |-> log_level, log_file |-> log_file]
        /\ UNCHANGED <<heap, task, deploy_cfg, runner, model, pre, orig_cfg>>

Next ==
    \/ Construct
    \/ CallProcessModelConfig
    \/ GetPreprocess
    \/ GetPostprocess

NextRunner ==
    \/ WrapModel
    \/ BuildLogger

Spec == Init /\ [][Next]_vars

SpecRunner == InitRunner /\ [][NextRunner]_vars

\* ================================================================ claims
IsLoad(step) == step.type = "LoadImageFromFile"
StartsWithLoad(p) == Len(p) > 0 /\ IsLoad(p[1])
NotLoad(step) == ~IsLoad(step)
OtherSteps(p) == SelectSeq(p, NotLoad)
HasPipeline(cfg) == "test_pipeline" \in DOMAIN cfg /\ Len(cfg.test_pipeline) > 0
ShapeGiven(input_shape) == "none" \notin DOMAIN input_shape
PmcCalled == last_op = "process_model_config" /\ HasPipeline(pre)
PmcReturned == PmcCalled /\ ret.status = "ok"

\* C1 as stated: for a non-empty test_pipeline the returned pipeline starts with
\* a LoadImageFromFile step if and only if imgs is a str, and the other steps of
\* the input appear in the result unchanged and in order.
C1_AsStated ==
    PmcReturned =>
        /\ StartsWithLoad(heap[ret.ref].test_pipeline) <=> IsStr(args.imgs)
        /\ OtherSteps(heap[ret.ref].test_pipeline) = OtherSteps(pre.test_pipeline)

\* C1 amended: for a non-empty test_pipeline the call returns unless an
\* input_shape is given and the adjusted pipeline has fewer than three steps
\* (IndexError). For a str the load step is inserted at index 0 only when the
\* first step is not one, so the result starts with it. Otherwise exactly one
\* leading load step is removed when present, so the result starts with a load
\* step exactly when the first two steps of the input both are load steps. The
\* other steps appear unchanged and in order.
C1_LoadStepAdjusted ==
    PmcCalled =>
        LET inp == pre.test_pipeline
            n == Len(inp)
                 + (IF IsStr(args.imgs) /\ ~IsLoad(inp[1]) THEN 1 ELSE 0)
                 - (IF ~IsStr(args.imgs) /\ IsLoad(inp[1]) THEN 1 ELSE 0)
        IN  /\ ret.status \in {"ok", "IndexError"}
            /\ ret.status = "IndexError" <=> (ShapeGiven(args.input_shape) /\ n < 3)
            /\ ret.status = "ok" =>
                LET out == heap[ret.ref].test_pipeline
                IN  /\ Len(out) = n
                    /\ OtherSteps(out) = OtherSteps(inp)
                    /\ IsStr(args.imgs) =>
                        /\ StartsWithLoad(out)
                        /\ IsLoad(inp[1]) => out = inp
                        /\ ~IsLoad(inp[1]) => Tail(out) = inp
                    /\ ~IsStr(args.imgs) =>
                        /\ IsLoad(inp[1]) => out = Tail(inp)
                        /\ ~IsLoad(inp[1]) => out = inp
                        /\ StartsWithLoad(out) <=>
                            (n >= 1 /\ IsLoad(inp[1]) /\ IsLoad(inp[2]))

\* C1 witness: an array input on a pipeline with two leading load steps
\* returns a pipeline that still starts with a load step.
C1_Witness ==
    /\ PmcReturned
    /\ ~IsStr(args.imgs)
    /\ Len(pre.test_pipeline) >= 3
    /\ IsLoad(pre.test_pipeline[1])
    /\ IsLoad(pre.test_pipeline[2])
    /\ heap[ret.ref].test_pipeline = Tail(pre.test_pipeline)
    /\ StartsWithLoad(heap[ret.ref].test_pipeline)

\* C2: a call of process_model_config or of get_preprocess, with any imgs and
\* any input_shape, returning or raising, leaves the model_cfg object it was
\* given, its test_pipeline included, equal to what it was when the call began;
\* so does any sequence of such calls.
C2_ModelCfgUntouched ==
    last_op \in {"process_model_config", "get_preprocess"} =>
        heap[ModelCfgAddr] = pre

\* C2 witness: a call returned a config whose pipeline differs from the one of
\* the model_cfg it was given, on a built task.
C2_Witness ==
    /\ task.built
    /\ last_op = "process_model_config"
    /\ ret.status = "ok"
    /\ ret.ref # ModelCfgAddr
    /\ heap[ret.ref].test_pipeline # pre.test_pipeline
    /\ heap[ModelCfgAddr] = pre

\* C3 as stated: when the head is configured with a tuple of topk values, every
\* call of get_postprocess, the first and each later one, returns the head with
\* topk equal to the maximum of the configured values, without raising.
C3_EveryCallReturnsMax ==
    (/\ last_op = "get_postprocess"
     /\ "topk" \in DOMAIN orig_cfg.model.head
     /\ "tuple" \in DOMAIN orig_cfg.model.head.topk
     /\ Len(orig_cfg.model.head.topk.tuple) > 0) =>
        /\ ret.status = "ok"
        /\ heap[ret.ref].model.head.topk = PyInt(PyMax(orig_cfg.model.head.topk.tuple))

\* C4: when the head has no topk key, get_postprocess fails with the assertion
\* error 'model config lack topk' and leaves model_cfg unchanged.
C4_MissingTopkAsserts ==
    (last_op = "get_postprocess" /\ "topk" \notin DOMAIN pre.model.head) =>
        /\ ret.status = "AssertionError"
        /\ ret.msg = "model config lack topk"
        /\ heap[ModelCfgAddr] = pre

\* C4 witness: get_postprocess was called on a head without topk.
C4_Witness ==
    /\ last_op = "get_postprocess"
    /\ "topk" \notin DOMAIN pre.model.head
    /\ ret.status = "AssertionError"

\* C5: wrap_model returns the given model moved to the device passed to the
\* constructor, whatever model_wrapper_cfg is, and applies no wrapper.
C5_WrapModelMovesOnly ==
    last_op = "wrap_model" =>
        /\ ret.status = "ok"
        /\ ret.value = [args.model EXCEPT !.device = runner._device]
        /\ ret.value.wrapper = "none"
        /\ model = ret.value

\* C5 witness: a model on another device was moved, under a wrapper config
\* that names a wrapper type.
C5_Witness ==
    /\ last_op = "wrap_model"
    /\ "dict" \in DOMAIN args.model_wrapper_cfg
    /\ "type" \in DOMAIN args.model_wrapper_cfg.dict
    /\ args.model.device # runner._device
    /\ ret.value.device = runner._device

====
